---- MODULE Spec2Model ----
(***************************************************************************)
(* Stream lifecycle of OrbisCast: the module-level state of the streaming  *)
(* module (src/src/modules/iptv/schedulers.ts, lines 23-230) and the       *)
(* command handlers that drive it (executeStreamChannel, handleStopCommand,*)
(* handleLeaveCommand).                                                    *)
(*                                                                         *)
(* JavaScript runs the code between two awaits as one uninterrupted block, *)
(* so every action below is one such block.  setTimeout and setInterval    *)
(* are countdowns in units of UNIT_MS milliseconds, advanced by Tick; an   *)
(* await of the network (login, joinVoice) may take any amount of time.    *)
(***************************************************************************)
EXTENDS Integers, Sequences, FiniteSets, TLC

\* ---- bounds of the model ------------------------------------------------
MaxCalls == 2           \* commands received: /stream, /stop and /leave
MaxMembers == 2         \* largest member count a poll can observe
DEFAULT_STREAM_TIMEOUT == 1   \* config.DEFAULT_STREAM_TIMEOUT, minutes

\* ---- program constants ----------------------------------------------------
UNIT_MS == 250
GRACE_MS == 1000        \* stopStreaming's setTimeout
WAIT_MS == 750          \* executeStreamChannel's setTimeout
POLL_MS == 10000        \* setInterval period of the spectator monitor
POLL_SECONDS == 10      \* streamAloneTime += 10
GRACE == GRACE_MS \div UNIT_MS
WAIT == WAIT_MS \div UNIT_MS
POLL == POLL_MS \div UNIT_MS

NoChannel == 0          \* currentChannelEntry = null
NoTimer == 0            \* streamSpectatorMonitor = null
NoVoice == 0            \* streamer.voiceConnection undefined
Requests == 1..MaxCalls
VoiceChannels == {1}

VARIABLES
    loggedIn,                 \* streamer.client.isReady()
    abortController,          \* the current controller: [aborted |-> BOOLEAN]
    currentChannelEntry,      \* request whose channel is recorded, or NoChannel
    streamSpectatorMonitor,   \* interval handle held by the module, or NoTimer
    streamAloneTime,          \* seconds
    voiceConnection,          \* streamer.voiceConnection?.channelId or NoVoice
    timers,                   \* live setInterval handles: {[h, left]}
    stops,                    \* stopStreaming calls inside their 1000 ms delay
    req,                      \* executeStreamChannel calls
    pipe,                     \* prepareStream/playStream of each request
    calls,                    \* commands received so far
    lastStarted,              \* the request whose monitor was armed last
    monReq,                   \* per session: threshold branches executed
    streak,                   \* consecutive polls of the armed monitor that
                              \* counted one non-bot member
    empties,                  \* consecutive polls of the armed monitor that
                              \* counted no non-bot member
    ev,                       \* what the last step did, for the steps the
                              \* properties observe: a return of stopStreaming,
                              \* a prepareStream call, a poll, a /stop command
    streamTimeout,            \* src/unnamed/part_010 only: the setTimeout
                              \* handle [h, pending], or NoTimeout
    refreshTimers,            \* live setInterval timers of scheduleIPTVRefresh
    channelsDb,               \* channelsDb.data.channels
    playlistCache,            \* the cached playlist.m3u, or NoFile
    DEBUG                     \* config.DEBUG

vars == <<loggedIn, abortController, currentChannelEntry,
          streamSpectatorMonitor, streamAloneTime, voiceConnection, timers,
          stops, req, pipe, calls, lastStarted, monReq, streak, empties,
          ev, streamTimeout, refreshTimers, channelsDb, playlistCache,
          DEBUG>>

\* the state of the IPTV modules
iptv == <<refreshTimers, channelsDb, playlistCache, DEBUG>>

\* a playlist file is modelled by the channels its lines describe
File(chs) == [found |-> TRUE, channels |-> chs]
NoFile == [found |-> FALSE, channels |-> {}]        \* null
NoTimeout == [h |-> NoTimer, pending |-> FALSE]     \* streamTimeout = null

\* the IPTV modules before their first download
IptvAtLoad ==
    /\ refreshTimers = 0
    /\ channelsDb = {}
    /\ playlistCache = NoFile
    /\ DEBUG = FALSE

\* ---- AbortController ------------------------------------------------------
\* A pipeline holds the signal it was given.  While that signal belongs to
\* the module's current controller it is "current"; once stopStreaming has
\* replaced the controller (line 210) nothing can abort the old signal any
\* more, so it stays what it was: "aborted" or "pending".

NewAbortController == [aborted |-> FALSE]

\* abortController.abort(), line 208
abort(ctl) == [ctl EXCEPT !.aborted = TRUE]

SignalAborted(p) ==
    IF p.signal = "current" THEN abortController.aborted
    ELSE p.signal = "aborted"

\* the signals held by pipelines after line 210 has replaced the controller
Detach(pp, ctl) ==
    [i \in DOMAIN pp |->
        IF pp[i].signal = "current"
        THEN [pp[i] EXCEPT !.signal = IF ctl.aborted THEN "aborted" ELSE "pending"]
        ELSE pp[i]]

\* abort() starts the cool-down of every pipeline holding the current signal
\* that had not been aborted before
Cool(pp, ctl) ==
    [i \in DOMAIN pp |->
        IF pp[i].signal = "current" /\ ~ctl.aborted
        THEN [pp[i] EXCEPT !.cool = GRACE]
        ELSE pp[i]]

\* ---- timers ---------------------------------------------------------------

\* clearInterval(handle): the handle never fires again
clearInterval(ts, h) == {t \in ts : t.h # h}

\* setInterval(cb, 10000) for the session of request i
setInterval(ts, i) == ts \cup {[h |-> i, left |-> POLL]}

\* startSpectatorMonitoring, lines 116-123: the live timers afterwards
MonitorTimersNoClear(ts, mon, i) == setInterval(ts, i)
MonitorTimers(ts, mon, i) ==
    setInterval(IF mon # NoTimer THEN clearInterval(ts, mon) ELSE ts, i)

\* startSpectatorMonitoring, lines 113-114: the accumulator afterwards
MonitorAloneKeep(alone) == alone
MonitorAlone(alone) == 0

\* stopStreaming lines 212-225 after the delay: which timers survive
StopTimersKeep(ts, cur, mon) == ts
StopTimers(ts, cur, mon) ==
    IF cur = NoChannel THEN ts
    ELSE IF mon # NoTimer THEN clearInterval(ts, mon) ELSE ts

\* stopStreaming lines 212-224: the handle held by the module afterwards
StopMonitorKeep(mon, cur) == mon
StopMonitor(mon, cur) == IF cur = NoChannel THEN mon ELSE NoTimer

\* stopStreaming lines 212-226: the accumulator after the delay
StopAloneKeep(alone, cur) == alone
StopAlone(alone, cur) == IF cur = NoChannel THEN alone ELSE 0

\* the record of a stopStreaming call waiting for its 1000 ms timeout;
\* sess is the session recorded when it was called
StopRec(cont, who, cur) ==
    [cont |-> cont, who |-> who, left |-> GRACE, sess |-> cur]

\* spectator callback lines 130-144: the accumulator after a counted poll
AloneAfterPollOnZero(alone, members) ==
    IF members = 0 THEN alone + POLL_SECONDS ELSE 0
AloneAfterPollNoReset(alone, members) ==
    IF members = 1 THEN alone + POLL_SECONDS ELSE alone
AloneAfterPoll(alone, members) ==
    IF members = 1 THEN alone + POLL_SECONDS ELSE 0

\* line 137
ThresholdReachedLate(alone) == alone > DEFAULT_STREAM_TIMEOUT * 60
ThresholdReached(alone) == alone >= DEFAULT_STREAM_TIMEOUT * 60

\* polls of 10 s that span DEFAULT_STREAM_TIMEOUT minutes
PollsToTimeout == (DEFAULT_STREAM_TIMEOUT * 60) \div POLL_SECONDS

\* ---- exceptions ------------------------------------------------------------
\* The calls that can throw or reject, each inside a try block: login
\* (schedulers.ts 39-43), joinVoice (86-95), prepareStream and playStream
\* (163-198), leaveVoice (103-109), getChannelEntries (part_005 33-156) and
\* getProgrammeEntries (part_005 45-152).
TrySites == {"login", "joinVoice", "prepareStream", "playStream", "leaveVoice",
             "getChannelEntries", "getProgrammeEntries"}

\* what site throws is received by a catch block of the module
CaughtExceptRun(site) == site \in TrySites \ {"playStream"}
Caught(site) == site \in TrySites

\* the observation left when site throws: obs, written by the catch block,
\* or the exception leaving the module
Thrown(site, obs) ==
    IF Caught(site) THEN obs ELSE [kind |-> "uncaught", site |-> site]

\* an executeStreamChannel call that has not been made yet
NewReq == [pc |-> "new", left |-> 0, vc |-> NoVoice, result |-> "none",
           conc |-> FALSE]

\* ---- initial state: the module has been loaded (lines 32-36) --------------

Init ==
    /\ loggedIn = FALSE
    /\ abortController = NewAbortController
    /\ currentChannelEntry = NoChannel
    /\ streamSpectatorMonitor = NoTimer
    /\ streamAloneTime = 0
    /\ voiceConnection = NoVoice
    /\ timers = {}
    /\ stops = {}
    /\ req = [i \in Requests |-> NewReq]
    /\ pipe = [i \in Requests |-> [st |-> "none", signal |-> "none", cool |-> 0]]
    /\ calls = 0
    /\ lastStarted = 0
    /\ monReq = [i \in Requests |-> 0]
    /\ streak = 0
    /\ empties = 0
    /\ ev = [kind |-> "init"]
    /\ streamTimeout = NoTimeout
    /\ IptvAtLoad

\* ---- stopStreaming (schedulers.ts 201-230) --------------------------------

\* lines 202-209, up to the await: what the call does to the controller, the
\* pipelines' cool-down and the set of calls in their delay
StopCallCtlUnchecked(ready) == abort(abortController)
StopCallCtl(ready) == IF ready THEN abort(abortController) ELSE abortController
StopCallPipe(ready) == IF ready THEN Cool(pipe, abortController) ELSE pipe
StopCallStops(ready, ss, cont, who) ==
    IF ready THEN ss \cup {StopRec(cont, who, currentChannelEntry)} ELSE ss

\* ---- executeStreamChannel (src/unnamed/part_005, lines 20-157) -----------

\* an earlier executeStreamChannel call has not returned yet
Busy == \E j \in Requests : req[j].pc \notin {"new", "done"}

\* what a call of executeStreamChannel can meet at lines 27-43: "noName" an
\* empty channel name, "throws" getChannelEntries rejects, "notFound" no
\* channel entry has that name (or the entry has no tvg_id), "noVoice" no
\* voice channel id, "ok" none of these
StartArgs == {"ok", "noName", "throws", "notFound", "noVoice"}

\* lines 27-43 and 153-156: the call returns success: false at once
RejectedNameOnly(arg) == arg \in {"noName", "throws", "noVoice"}
Rejected(arg) == arg \in {"noName", "throws", "notFound", "noVoice"}

\* the observation left by a call: its channel name resolves to no entry,
\* getChannelEntries throws, or the call reaches loginStreamer with a client
\* that is ready (schedulers.ts 66-69)
Lookup(i, arg, ready) ==
    IF arg = "notFound" THEN [kind |-> "notFound", who |-> i]
    ELSE IF arg = "throws" THEN Thrown("getChannelEntries", [kind |-> "step"])
    ELSE IF arg = "ok" /\ ready THEN [kind |-> "alreadyLoggedIn", who |-> i]
    ELSE [kind |-> "step"]

\* loginStreamer lines 66-70: client.login is called
NeedsLoginAlways(ready) == TRUE
NeedsLogin(ready) == ~ready

\* lines 27-48: argument checks, channel lookup, initializeStreamer and the
\* synchronous part of stopStreaming; conc records whether the call was made
\* while an earlier one was still running
StartIssue(i) ==
    /\ req[i].pc = "new"
    /\ \A j \in Requests : j < i => req[j].pc # "new"
    /\ calls < MaxCalls
    /\ calls' = calls + 1
    /\ \E arg \in StartArgs, vc \in VoiceChannels :
        /\ ev' = Lookup(i, arg, loggedIn)
        /\ IF Rejected(arg)
           THEN /\ req' = [req EXCEPT ![i] = [NewReq EXCEPT !.pc = "done",
                                                 !.result = "failure",
                                                 !.conc = Busy]]
                /\ UNCHANGED <<abortController, pipe, stops>>
           ELSE IF ~NeedsLogin(loggedIn)
           THEN /\ abortController' = StopCallCtl(TRUE)
                /\ pipe' = StopCallPipe(TRUE)
                /\ stops' = StopCallStops(TRUE, stops, "req", i)
                /\ req' = [req EXCEPT ![i] = [NewReq EXCEPT !.pc = "stop",
                                                 !.vc = vc, !.conc = Busy]]
           ELSE /\ req' = [req EXCEPT ![i] = [NewReq EXCEPT !.pc = "login",
                                                 !.vc = vc, !.conc = Busy]]
                /\ UNCHANGED <<abortController, pipe, stops>>
    /\ UNCHANGED <<streamTimeout, iptv>>
    /\ UNCHANGED <<loggedIn, currentChannelEntry, streamSpectatorMonitor,
                   streamAloneTime, voiceConnection, timers, lastStarted,
                   monReq, streak, empties>>

\* schedulers.ts 39-43: a rejected login is caught and logged
LoginLogged(i, ok) ==
    IF ok THEN [kind |-> "step"]
    ELSE Thrown("login", [kind |-> "loginFailed", who |-> i])

\* initializeStreamer / loginStreamer (schedulers.ts 38-44, 65-72): the login
\* call settles, a rejection is caught and logged; stopStreaming follows
LoginDone(i) ==
    /\ req[i].pc = "login"
    /\ \E ok \in BOOLEAN :
        /\ loggedIn' = (loggedIn \/ ok)
        /\ abortController' = StopCallCtl(loggedIn')
        /\ pipe' = StopCallPipe(loggedIn')
        /\ stops' = StopCallStops(loggedIn', stops, "req", i)
        /\ IF loggedIn'
           THEN req' = [req EXCEPT ![i].pc = "stop"]
           ELSE req' = [req EXCEPT ![i].pc = "wait1", ![i].left = WAIT]
        /\ ev' = LoginLogged(i, ok)
    /\ UNCHANGED <<streamTimeout, iptv>>
    /\ UNCHANGED <<currentChannelEntry, streamSpectatorMonitor, streamAloneTime,
                   voiceConnection, timers, calls, lastStarted, monReq, streak,
                   empties>>

\* line 210: abortController = new AbortController()
ReplacedKeep(ctl) == ctl
Replaced(ctl) == NewAbortController

\* stopStreaming after its delay (lines 210-226), together with the code of
\* the caller that awaited it
StopDone(s) ==
    /\ s \in stops
    /\ s.left = 0
    /\ currentChannelEntry' = NoChannel
    /\ timers' = StopTimers(timers, currentChannelEntry, streamSpectatorMonitor)
    /\ streamSpectatorMonitor' =
           StopMonitor(streamSpectatorMonitor, currentChannelEntry)
    /\ streamAloneTime' = StopAlone(streamAloneTime, currentChannelEntry)
    /\ streak' = IF currentChannelEntry = NoChannel THEN streak ELSE 0
    /\ empties' = IF currentChannelEntry = NoChannel THEN empties ELSE 0
    /\ CASE s.cont = "req" ->
              \* part_005 line 49
              /\ abortController' = Replaced(abortController)
              /\ pipe' = Detach(pipe, abortController)
              /\ req' = [req EXCEPT ![s.who].pc = "wait1", ![s.who].left = WAIT]
              /\ stops' = stops \ {s}
              /\ UNCHANGED voiceConnection
         [] s.cont = "leaveCmd" ->
              \* part_003 line 11: leaveVoiceChannel, whose stopStreaming
              \* aborts the controller created just above
              /\ abortController' = IF loggedIn THEN abort(Replaced(abortController))
                                    ELSE Replaced(abortController)
              /\ pipe' = Detach(pipe, abortController)
              /\ stops' = IF loggedIn
                          THEN (stops \ {s}) \cup {StopRec("leave", s.who, NoChannel)}
                          ELSE stops \ {s}
              /\ UNCHANGED <<req, voiceConnection>>
         [] s.cont \in {"leave", "monLeave"} ->
              \* schedulers.ts line 105: streamer.leaveVoice(), which closes
              \* the connection or throws; 107-109 log what it throws
              /\ abortController' = Replaced(abortController)
              /\ pipe' = Detach(pipe, abortController)
              /\ \E threw \in BOOLEAN :
                    /\ voiceConnection' \in
                          IF threw THEN {voiceConnection, NoVoice} ELSE {NoVoice}
                    /\ ev' = IF threw
                             THEN Thrown("leaveVoice",
                                         [kind |-> "leaveFailed", cont |-> s.cont,
                                          who |-> s.who, sess |-> s.sess])
                             ELSE [kind |-> "stopReturn", cont |-> s.cont,
                                   who |-> s.who, sess |-> s.sess]
              /\ stops' = stops \ {s}
              /\ UNCHANGED req
         [] OTHER ->
              /\ abortController' = Replaced(abortController)
              /\ pipe' = Detach(pipe, abortController)
              /\ stops' = stops \ {s}
              /\ UNCHANGED <<req, voiceConnection>>
    /\ (s.cont \notin {"leave", "monLeave"} =>
           ev' = [kind |-> "stopReturn", cont |-> s.cont, who |-> s.who,
                  sess |-> s.sess])
    /\ UNCHANGED <<streamTimeout, iptv>>
    /\ UNCHANGED <<loggedIn, calls, lastStarted, monReq>>

\* part_005 lines 51-56 and joinVoiceChannel lines 75-85.  No code of the
\* repository creates a @discordjs/voice connection, so getVoiceConnection
\* yields undefined and joinVoiceChannel is always called.  It returns
\* without a joinVoice call when the client is not ready (76-79) or when
\* streamer.voiceConnection is a connection to the same channel (81-85).
AlreadyConnectedNever(conn, vc) == FALSE
AlreadyConnected(conn, vc) == conn # NoVoice /\ conn = vc

Wait1Done(i) ==
    /\ req[i].pc = "wait1"
    /\ req[i].left = 0
    /\ IF loggedIn /\ ~AlreadyConnected(voiceConnection, req[i].vc)
       THEN /\ req' = [req EXCEPT ![i].pc = "join"]
            /\ ev' = [kind |-> "step"]
       ELSE /\ req' = [req EXCEPT ![i].pc = "wait2", ![i].left = WAIT]
            /\ ev' = [kind |-> "joinSkipped", who |-> i]
    /\ UNCHANGED <<streamTimeout, iptv>>
    /\ UNCHANGED <<loggedIn, abortController, currentChannelEntry,
                   streamSpectatorMonitor, streamAloneTime, voiceConnection,
                   timers, stops, pipe, calls, lastStarted, monReq, streak,
                   empties>>

\* schedulers.ts 87-94: a connection that is not ready and a rejected
\* joinVoice are logged
JoinLogged(i, r) ==
    IF r = "ready" THEN [kind |-> "step"]
    ELSE IF r = "throws"
    THEN Thrown("joinVoice", [kind |-> "joinFailed", who |-> i])
    ELSE [kind |-> "joinFailed", who |-> i]

\* joinVoiceChannel lines 86-95: streamer.joinVoice settles; part_005 line 57
JoinDone(i) ==
    /\ req[i].pc = "join"
    /\ \E r \in {"ready", "notReady", "throws"} :
        /\ \E after \in {voiceConnection, req[i].vc} :
              /\ (r = "ready" => after = req[i].vc)
              /\ voiceConnection' = after
        /\ ev' = JoinLogged(i, r)
    /\ req' = [req EXCEPT ![i].pc = "wait2", ![i].left = WAIT]
    /\ UNCHANGED <<streamTimeout, iptv>>
    /\ UNCHANGED <<loggedIn, abortController, currentChannelEntry,
                   streamSpectatorMonitor, streamAloneTime, timers, stops, pipe,
                   calls, lastStarted, monReq, streak,
                   empties>>


\* part_005 lines 57-60: the second 750 ms wait is over, getProgrammeEntries
\* is awaited
Wait2Done(i) ==
    /\ req[i].pc = "wait2"
    /\ req[i].left = 0
    /\ req' = [req EXCEPT ![i].pc = "progs"]
    /\ ev' = [kind |-> "step"]
    /\ UNCHANGED <<streamTimeout, iptv>>
    /\ UNCHANGED <<loggedIn, abortController, currentChannelEntry,
                   streamSpectatorMonitor, streamAloneTime, voiceConnection,
                   timers, stops, pipe, calls, lastStarted, monReq, streak,
                   empties>>

\* ---- startStreaming (schedulers.ts 157-199) ------------------------------
\* part_005 lines 60-144: getProgrammeEntries settles, the embed is built,
\* startStreaming(channel) is called without await and runs up to its
\* await of playStream; executeStreamChannel then returns its result.
StartStreaming(i) ==
    /\ req[i].pc = "progs"
    /\ \E dbOk \in BOOLEAN, prepOk \in BOOLEAN :
        IF ~dbOk
        THEN \* part_005 lines 145-151
             /\ req' = [req EXCEPT ![i].pc = "done", ![i].result = "failure"]
             /\ ev' = Thrown("getProgrammeEntries", [kind |-> "step"])
             /\ UNCHANGED <<abortController, stops, pipe, currentChannelEntry,
                            timers, streamSpectatorMonitor, streamAloneTime,
                            lastStarted, streak, empties>>
        ELSE IF ~loggedIn
        THEN \* schedulers.ts lines 158-161
             /\ req' = [req EXCEPT ![i].pc = "done", ![i].result = "success"]
             /\ ev' = [kind |-> "step"]
             /\ UNCHANGED <<abortController, stops, pipe, currentChannelEntry,
                            timers, streamSpectatorMonitor, streamAloneTime,
                            lastStarted, streak, empties>>
        ELSE IF ~prepOk
        THEN \* prepareStream throws: lines 195-197
             /\ req' = [req EXCEPT ![i].pc = "done", ![i].result = "success"]
             /\ abortController' = StopCallCtl(TRUE)
             /\ pipe' = [StopCallPipe(TRUE) EXCEPT ![i].st = "failed"]
             /\ stops' = StopCallStops(TRUE, stops, "catch", i)
             /\ ev' = Thrown("prepareStream",
                              [kind |-> "prepare", who |-> i, ok |-> FALSE,
                               fresh |-> ~abortController.aborted,
                               prevMon |-> streamSpectatorMonitor,
                               prevAlone |-> streamAloneTime])
             /\ UNCHANGED <<currentChannelEntry, timers, streamSpectatorMonitor,
                            streamAloneTime, lastStarted, streak,
                            empties>>
        ELSE \* lines 164-189
             /\ req' = [req EXCEPT ![i].pc = "done", ![i].result = "success"]
             /\ pipe' = [pipe EXCEPT ![i] =
                           [st |-> "alive", signal |-> "current",
                            cool |-> IF abortController.aborted THEN GRACE ELSE 0]]
             /\ currentChannelEntry' = i
             /\ streamAloneTime' = MonitorAlone(streamAloneTime)
             /\ timers' = MonitorTimers(timers, streamSpectatorMonitor, i)
             /\ streamSpectatorMonitor' = i
             /\ lastStarted' = i
             /\ streak' = 0
             /\ empties' = 0
             /\ ev' = [kind |-> "prepare", who |-> i, ok |-> TRUE,
                       fresh |-> ~abortController.aborted,
                       prevMon |-> streamSpectatorMonitor,
                       prevAlone |-> streamAloneTime]
             /\ UNCHANGED <<abortController, stops>>
    /\ UNCHANGED <<streamTimeout, iptv>>
    /\ UNCHANGED <<loggedIn, voiceConnection, calls, monReq>>

\* lines 195-196: a rejected playStream is logged
Settled(i, how) ==
    IF how = "reject"
    THEN Thrown("playStream", [kind |-> "playFailed", who |-> i])
    ELSE [kind |-> "step"]

\* the results of the executeStreamChannel calls once playStream has settled:
\* startStreaming is not awaited (part_005 line 137) and catches what
\* playStream throws (schedulers.ts 195-198), so the result returned at
\* part_005 line 138 stands
ResultAfterRunFailure(rq, i, how) ==
    IF how = "reject" THEN [rq EXCEPT ![i].result = "failure"] ELSE rq
ResultAfterRun(rq, i, how) == rq

\* lines 185-193: only a rejection of playStream enters the catch block
HandledAsFailure(how) == "reject"
Handled(how) == how


\* playStream settles (lines 186-198).  It resolves when the source ends and
\* rejects on a failure; after abort() of its signal it settles either way.
PlayReturn(i) ==
    /\ pipe[i].st = "alive"
    /\ \E how \in {"resolve", "reject"} :
        /\ ev' = Settled(i, how)
        /\ req' = ResultAfterRun(req, i, how)
        /\ IF Handled(how) = "resolve"
           THEN /\ pipe' = [pipe EXCEPT ![i].st = "ended"]
                /\ UNCHANGED <<abortController, stops, timers,
                               streamSpectatorMonitor, streamAloneTime, streak,
                               empties>>
           ELSE \* cleanupMonitoring (lines 147-154), then line 197
                /\ timers' = IF streamSpectatorMonitor # NoTimer
                             THEN clearInterval(timers, streamSpectatorMonitor)
                             ELSE timers
                /\ streamSpectatorMonitor' = NoTimer
                /\ streamAloneTime' = 0
                /\ streak' = 0
                /\ empties' = 0
                /\ abortController' = StopCallCtl(loggedIn)
                /\ pipe' = [StopCallPipe(loggedIn) EXCEPT ![i].st = "ended"]
                /\ stops' = StopCallStops(loggedIn, stops, "catch", i)
    /\ UNCHANGED <<streamTimeout, iptv>>
    /\ UNCHANGED <<loggedIn, currentChannelEntry, voiceConnection, calls,
                   lastStarted, monReq>>

\* ---- the spectator monitor's callback (schedulers.ts 123-145) ------------

\* lines 124-128: the callback goes on to count the members when the
\* streamer has a voice connection and its channel is a cached voice channel
CountedWithoutConnection(conn, cached) == cached
Counted(conn, cached) == conn # NoVoice /\ cached

Poll(t) ==
    /\ t \in timers
    /\ t.left = 0
    /\ \E cached \in BOOLEAN, members \in 0..MaxMembers :
        LET counted == Counted(voiceConnection, cached)
            alone1 == AloneAfterPoll(streamAloneTime, members)
            fire == counted /\ members = 1 /\ ThresholdReached(alone1)
        IN  /\ timers' = (timers \ {t}) \cup {[t EXCEPT !.left = POLL]}
            /\ streamAloneTime' = IF counted THEN alone1 ELSE streamAloneTime
            /\ streak' = IF ~counted THEN streak
                         ELSE IF members = 1 THEN streak + 1 ELSE 0
            /\ empties' = IF ~counted THEN empties
                          ELSE IF members # 0 THEN 0
                          ELSE IF empties < PollsToTimeout THEN empties + 1
                          ELSE empties
            /\ monReq' = IF fire
                         THEN [monReq EXCEPT ![t.h] = IF @ < 2 THEN @ + 1 ELSE @]
                         ELSE monReq
            \* lines 139-140: stopStreaming() and leaveVoiceChannel(), neither
            \* awaited; each runs up to its timeout
            /\ abortController' = StopCallCtl(fire /\ loggedIn)
            /\ pipe' = StopCallPipe(fire /\ loggedIn)
            /\ stops' = StopCallStops(fire /\ loggedIn,
                           StopCallStops(fire /\ loggedIn, stops, "mon", t.h),
                           "monLeave", t.h)
            /\ ev' = [kind |-> "poll", who |-> t.h, counted |-> counted,
                      members |-> members, fire |-> fire,
                      prevAlone |-> streamAloneTime]
    /\ UNCHANGED <<streamTimeout, iptv>>
    /\ UNCHANGED <<loggedIn, currentChannelEntry, streamSpectatorMonitor,
                   voiceConnection, req, calls, lastStarted>>

\* ---- commands ------------------------------------------------------------

\* handleStopCommand (src/src/modules/commands/stop.ts 7-16)
HandleStopCommand ==
    /\ calls < MaxCalls
    /\ calls' = calls + 1
    /\ abortController' = StopCallCtl(loggedIn)
    /\ pipe' = StopCallPipe(loggedIn)
    /\ stops' = StopCallStops(loggedIn, stops, "stopCmd", calls + 1)
    /\ ev' = [kind |-> "stopCommand", who |-> calls + 1,
              active |-> (currentChannelEntry # NoChannel)]
    /\ UNCHANGED <<streamTimeout, iptv>>
    /\ UNCHANGED <<loggedIn, currentChannelEntry, streamSpectatorMonitor,
                   streamAloneTime, voiceConnection, timers, req, lastStarted,
                   monReq, streak, empties>>

\* handleLeaveCommand (src/unnamed/part_003 7-17): stopStreaming, then
\* leaveVoiceChannel (schedulers.ts 98-110)
HandleLeaveCommand ==
    /\ calls < MaxCalls
    /\ calls' = calls + 1
    /\ abortController' = StopCallCtl(loggedIn)
    /\ pipe' = StopCallPipe(loggedIn)
    /\ stops' = StopCallStops(loggedIn, stops, "leaveCmd", calls + 1)
    /\ ev' = [kind |-> "step"]
    /\ UNCHANGED <<streamTimeout, iptv>>
    /\ UNCHANGED <<loggedIn, currentChannelEntry, streamSpectatorMonitor,
                   streamAloneTime, voiceConnection, timers, req, lastStarted,
                   monReq, streak, empties>>

\* ---- time ----------------------------------------------------------------

Timed(i) == req[i].pc \in {"wait1", "wait2"}

\* UNIT_MS milliseconds pass.  A timer that is due fires first, and a
\* playStream whose signal has been aborted settles first.
Tick ==
    /\ \A t \in timers : t.left > 0
    /\ \A s \in stops : s.left > 0
    /\ \A i \in Requests : Timed(i) => req[i].left > 0
    /\ \A i \in Requests : pipe[i].st = "alive" => ~SignalAborted(pipe[i])
    /\ timers # {} \/ stops # {} \/ \E i \in Requests : Timed(i)
    /\ timers' = {[t EXCEPT !.left = @ - 1] : t \in timers}
    /\ stops' = {[s EXCEPT !.left = @ - 1] : s \in stops}
    /\ req' = [i \in Requests |->
                 IF Timed(i) THEN [req[i] EXCEPT !.left = @ - 1] ELSE req[i]]
    /\ pipe' = [i \in Requests |->
                 IF pipe[i].cool > 0 THEN [pipe[i] EXCEPT !.cool = @ - 1]
                 ELSE pipe[i]]
    /\ ev' = [kind |-> "step"]
    /\ UNCHANGED <<streamTimeout, iptv>>
    /\ UNCHANGED <<loggedIn, abortController, currentChannelEntry,
                   streamSpectatorMonitor, streamAloneTime, voiceConnection,
                   calls, lastStarted, monReq, streak,
                   empties>>

Next ==
    \/ \E i \in Requests : StartIssue(i)
    \/ \E i \in Requests : LoginDone(i)
    \/ \E s \in stops : StopDone(s)
    \/ \E i \in Requests : Wait1Done(i)
    \/ \E i \in Requests : JoinDone(i)
    \/ \E i \in Requests : Wait2Done(i)
    \/ \E i \in Requests : StartStreaming(i)
    \/ \E i \in Requests : PlayReturn(i)
    \/ \E t \in timers : Poll(t)
    \/ HandleStopCommand
    \/ HandleLeaveCommand
    \/ Tick

Spec == Init /\ [][Next]_vars

\* ---- sanity of the model ---------------------------------------------------
TypeOK ==
    /\ loggedIn \in BOOLEAN
    /\ currentChannelEntry \in Requests \cup {NoChannel}
    /\ streamSpectatorMonitor \in Requests \cup {NoTimer}
    /\ \A t \in timers : t.left \in 0..POLL
    /\ \A s \in stops : s.left \in 0..GRACE

\* ---- properties ------------------------------------------------------------

\* the requests whose pipeline is between prepareStream and the return of
\* playStream
Alive == {i \in Requests : pipe[i].st = "alive"}

\* states of a pipeline whose prepareStream call returned: playStream is
\* running, has settled
Prepared == {"alive", "ended"}

\* request j calls prepareStream in this step
Prepares(j) == pipe[j].st = "none" /\ pipe'[j].st # "none"

\* C1: at every moment at most one pipeline is alive, a pipeline being alive
\* from its prepareStream call until its playStream has returned.
C1_AtMostOnePipelineAlive == Cardinality(Alive) <= 1

\* C2: two start requests, the second made before the first had returned,
\* and nothing else: once both have returned and no stop is in progress,
\* currentChannelEntry is the request that reached prepareStream last and,
\* while its pipeline runs, no other pipeline does.
C2_LastPreparedWins ==
    ( /\ calls = 2
      /\ \A i \in {1, 2} : req[i].pc = "done" /\ pipe[i].st \in Prepared
      /\ req[2].conc
      /\ stops = {}
      /\ \A i \in {1, 2} : monReq[i] = 0
      /\ pipe[lastStarted].st = "alive" )
    => /\ currentChannelEntry = lastStarted
       /\ Alive = {lastStarted}

\* C3: when a request calls prepareStream, every earlier pipeline that is
\* still alive holds an aborted signal, and the 1000 ms delay that follows
\* the abort of an earlier pipeline's signal is over.
C3_PrepareAfterAbortAndGrace ==
    [][\A j \in Requests : Prepares(j) =>
          \A i \in Requests :
             (i # j /\ pipe[i].st \in Prepared) =>
                /\ pipe[i].st = "alive" => SignalAborted(pipe[i])
                /\ pipe[i].cool = 0]_vars

\* C4: the signal handed to prepareStream and playStream is not aborted at
\* the moment of the call.
C4_FreshSignalAtPrepare ==
    [][\A j \in Requests : Prepares(j) => ~abortController.aborted]_vars

\* C5: when a stopStreaming call made while logged in and with a session
\* recorded returns, that session's signal is aborted, currentChannelEntry
\* is null, no monitor timer is left and streamAloneTime is 0.
C5_StopClearsSession ==
    (ev.kind = "stopReturn" /\ ev.sess # NoChannel) =>
        /\ SignalAborted(pipe[ev.sess])
        /\ currentChannelEntry = NoChannel
        /\ streamSpectatorMonitor = NoTimer
        /\ timers = {}
        /\ streamAloneTime = 0

\* a /stop command given during a session has returned
C5_Witness ==
    ev.kind = "stopReturn" /\ ev.sess # NoChannel /\ ev.cont = "stopCmd"

\* C6: a stopStreaming call made while no session is recorded has no side
\* effect: the controller is neither aborted nor replaced, no delay is
\* started and the module's state is unchanged.
C6_IdleStopHasNoEffect ==
    [][(ev'.kind = "stopCommand" /\ ~ev'.active) =>
          /\ abortController' = abortController
          /\ stops' = stops
          /\ UNCHANGED <<currentChannelEntry, streamSpectatorMonitor,
                         streamAloneTime, timers, voiceConnection>>]_vars

\* C7: at most one spectator-monitor timer is live, and it is the one the
\* module holds: a new timer is created only after the previous one has
\* been cleared.
C7_OneMonitorTimer ==
    /\ Cardinality(timers) <= 1
    /\ \A t \in timers : t.h = streamSpectatorMonitor

\* a session was started while the previous session's timer was still armed
C7_Witness ==
    /\ ev.kind = "prepare" /\ ev.ok /\ ev.prevMon # NoTimer
    /\ timers = {[h |-> ev.who, left |-> POLL]}

\* C8: starting a session sets streamAloneTime to 0 whatever the previous
\* monitor had accumulated, and from then on only the new session's timer
\* runs the poll callback, so the previous monitor neither changes the
\* accumulator nor requests a stop.
C8_NewSessionResetsAccumulator ==
    [][/\ (\E j \in Requests : Prepares(j) /\ pipe'[j].st = "alive")
            => streamAloneTime' = 0
       /\ ev'.kind = "poll" => ev'.who = lastStarted]_vars

\* a session was started while the previous monitor had accumulated time
C8_Witness ==
    /\ ev.kind = "prepare" /\ ev.ok /\ ev.prevMon # NoTimer
    /\ ev.prevAlone > 0
    /\ streamAloneTime = 0

\* the stopStreaming calls session h's monitor has in their delay
MonitorStops(ss, h, cont) == {s \in ss : s.who = h /\ s.cont = cont}

\* the poll of this step requests the stop: stopStreaming and
\* leaveVoiceChannel are called once each
RequestsStop(h) ==
    /\ monReq'[h] = monReq[h] + 1
    /\ Cardinality(MonitorStops(stops', h, "mon")) = 1
    /\ Cardinality(MonitorStops(stops', h, "monLeave")) = 1
    /\ abortController'.aborted

\* C9 as stated: once the polls that found no non-bot member in the call
\* span DEFAULT_STREAM_TIMEOUT minutes, the monitor requests the stop,
\* once, and the session is polled no more.
C9_NoMemberTimesOut ==
    [][ev'.kind = "poll" =>
          /\ monReq[ev'.who] = 0
          /\ empties' >= PollsToTimeout => RequestsStop(ev'.who)]_vars

\* C9 amended: a poll runs only for a session whose monitor has not yet
\* requested a stop; the stop is requested exactly by the poll that
\* completes PollsToTimeout consecutive polls counting one non-bot member
\* (the streaming account itself), and that poll calls stopStreaming and
\* leaveVoiceChannel once each.
C9_AloneTimesOutOnce ==
    [][ev'.kind = "poll" =>
          /\ monReq[ev'.who] = 0
          /\ IF streak' >= PollsToTimeout
             THEN RequestsStop(ev'.who)
             ELSE monReq' = monReq /\ stops' = stops]_vars

\* the monitor has requested the stop and both of its calls have returned
C9_Witness ==
    /\ \E h \in Requests : monReq[h] = 1 /\ lastStarted = h
    /\ ev.kind = "stopReturn" /\ ev.cont = "monLeave"
    /\ stops = {}
    /\ currentChannelEntry = NoChannel /\ voiceConnection = NoVoice
    /\ timers = {}

\* C10 as stated: a poll that observes a non-bot member sets
\* streamAloneTime to 0 and requests no stop.
C10_AnyMemberResets ==
    [][(ev'.kind = "poll" /\ ev'.counted /\ ev'.members >= 1) =>
          /\ streamAloneTime' = 0
          /\ monReq' = monReq
          /\ stops' = stops]_vars

\* C10 amended: a poll that counts more than one non-bot member (someone
\* besides the streaming account) sets streamAloneTime to 0 and requests no
\* stop; a stop is requested only by a poll that completes PollsToTimeout
\* consecutive polls counting exactly one.
C10_CompanyResetsAccumulator ==
    [][ev'.kind = "poll" =>
          /\ (ev'.counted /\ ev'.members > 1) =>
                /\ streamAloneTime' = 0
                /\ monReq' = monReq
                /\ stops' = stops
          /\ monReq' # monReq => streak' >= PollsToTimeout]_vars

\* someone was seen by the last poll before the threshold
C10_Witness ==
    /\ ev.kind = "poll" /\ ev.counted /\ ev.members > 1
    /\ ev.prevAlone = DEFAULT_STREAM_TIMEOUT * 60 - POLL_SECONDS
    /\ streamAloneTime = 0

\* the signal of request i's pipeline is aborted after this step
SignalAbortedNext(i) ==
    IF pipe'[i].signal = "current" THEN abortController'.aborted
    ELSE pipe'[i].signal = "aborted"

\* playStream of request i rejects in this step
RunFails(i) ==
    pipe[i].st = "alive" /\ ev'.kind = "playFailed" /\ ev'.who = i

\* C12: when playStream rejects, the signal of its session is aborted by
\* the stopStreaming call of the catch block, and the stopStreaming call made by the catch block returns with the
\* session cleared and no monitor timer left; a pipeline that has ended is
\* never prepared again.
C12_RunFailureStops ==
    [][/\ \A i \in Requests : RunFails(i) => SignalAbortedNext(i)
       /\ (ev'.kind = "stopReturn" /\ ev'.cont = "catch") =>
             /\ currentChannelEntry' = NoChannel
             /\ streamSpectatorMonitor' = NoTimer
             /\ timers' = {}
       /\ \A i \in Requests :
             pipe[i].st \in {"ended", "failed"} =>
                pipe'[i].st = pipe[i].st]_vars

\* C13: a start whose channel name resolves to no entry returns a failure
\* and does nothing else: it makes no login, stop, join, prepare or run call
\* and leaves the streaming state as it was.
C13_UnknownChannelTouchesNothing ==
    [][ev'.kind = "notFound" =>
          /\ req'[ev'.who].pc = "done"
          /\ req'[ev'.who].result = "failure"
          /\ \A j \in Requests \ {ev'.who} : req'[j] = req[j]
          /\ UNCHANGED <<loggedIn, abortController, currentChannelEntry,
                         streamSpectatorMonitor, streamAloneTime,
                         voiceConnection, timers, stops, pipe>>]_vars

\* an unknown channel name was refused while a session was running
C13_Witness ==
    /\ ev.kind = "notFound"
    /\ req[ev.who].result = "failure"
    /\ currentChannelEntry # NoChannel
    /\ Alive # {}

\* C14: when the login made by a start fails, the start ends there with a
\* failure result.
C14_LoginFailurePropagates ==
    [][(ev'.kind = "loginFailed" /\ req[ev'.who].pc = "login") =>
          /\ req'[ev'.who].pc = "done"
          /\ req'[ev'.who].result = "failure"]_vars

\* C15: when the join made by a start does not reach ready or throws, the
\* join reports a failure to the start, which ends there with a failure
\* result.
C15_JoinFailureReported ==
    [][(ev'.kind = "joinFailed" /\ req[ev'.who].pc = "join") =>
          /\ req'[ev'.who].pc = "done"
          /\ req'[ev'.who].result = "failure"]_vars

\* C16: after a failed join the streamer is not recorded as connected to the
\* requested channel, so that the next join of that channel is attempted.
C16_FailedJoinLeavesNoConnection ==
    [][(ev'.kind = "joinFailed" /\ req[ev'.who].pc = "join") =>
          ~AlreadyConnected(voiceConnection', req[ev'.who].vc)]_vars

\* C17: a join of the channel the streamer is already connected to makes no
\* joinVoice call and leaves the connection as it is.
C17_SecondJoinIsNoOp ==
    [][\A i \in Requests :
          (/\ req[i].pc = "wait1"
           /\ req'[i].pc # "wait1"
           /\ voiceConnection # NoVoice
           /\ voiceConnection = req[i].vc) =>
              /\ req'[i].pc = "wait2"
              /\ voiceConnection' = voiceConnection]_vars

\* a second start joined the channel the first one had connected to
C17_Witness ==
    /\ ev.kind = "joinSkipped"
    /\ loggedIn
    /\ voiceConnection # NoVoice
    /\ voiceConnection = req[ev.who].vc
    /\ \E j \in Requests : j # ev.who /\ req[j].pc = "done" /\ req[j].vc = req[ev.who].vc

\* streamer.leaveVoice() is called in this step (schedulers.ts 105)
LeavesVoice ==
    /\ ev'.kind \in {"stopReturn", "leaveFailed"}
    /\ ev'.cont \in {"leave", "monLeave"}
    /\ \E s \in stops : s \notin stops' /\ s.cont = ev'.cont /\ s.who = ev'.who

\* C18: when leaveVoiceChannel closes the voice connection its stopStreaming
\* call has been completed: the session is cleared and every pipeline still
\* running holds an aborted signal.
C18_StopBeforeLeaveVoice ==
    [][LeavesVoice =>
          /\ currentChannelEntry' = NoChannel
          /\ \A i \in Requests :
                pipe'[i].st = "alive" => pipe'[i].signal = "aborted"]_vars

\* C19: executeStreamChannel returns success in the step in which
\* prepareStream is called, the session recorded and the monitor armed,
\* while playStream is still running; a later rejection of playStream
\* leaves every result as it was returned.
C19_StartReturnsBeforeRunEnds ==
    [][\A i \in Requests :
          /\ (Prepares(i) /\ pipe'[i].st = "alive") =>
                /\ req'[i].pc = "done"
                /\ req'[i].result = "success"
                /\ currentChannelEntry' = i
                /\ streamSpectatorMonitor' = i
          /\ RunFails(i) =>
                /\ req[i].pc = "done"
                /\ req[i].result = "success"
                /\ req' = req]_vars

\* playStream has rejected after its start had returned success
C19_Witness ==
    /\ ev.kind = "playFailed"
    /\ req[ev.who].pc = "done"
    /\ req[ev.who].result = "success"
    /\ pipe[ev.who].st = "ended"

\* C20: no exception of login, joinVoice, prepareStream, playStream,
\* leaveVoice or the database leaves the module, and every
\* executeStreamChannel call that has returned holds success or failure.
C20_NothingEscapes ==
    /\ ev.kind # "uncaught"
    /\ \A i \in Requests :
          req[i].pc = "done" => req[i].result \in {"success", "failure"}

\* leaveVoice has thrown inside leaveVoiceChannel and was logged there
C20_Witness ==
    /\ ev.kind = "leaveFailed"
    /\ voiceConnection # NoVoice
    /\ currentChannelEntry = NoChannel

\* C22: a start that finds the client logged in makes no login call and
\* leaves the login state as it is; a start that finds it logged out makes
\* one login call, which settles once.
C22_LoginIdempotent ==
    [][\A i \in Requests :
          /\ (req[i].pc = "new" /\ req'[i].pc \notin {"new", "done"}) =>
                /\ (req'[i].pc = "login") = ~loggedIn
                /\ loggedIn' = loggedIn
          /\ (req[i].pc = "login" /\ req'[i].pc # "login") =>
                req'[i].pc \in {"stop", "wait1"}
          /\ (req[i].pc \notin {"new", "login"}) => req'[i].pc # "login"]_vars

\* a start was issued with the client already logged in
C22_Witness ==
    /\ ev.kind = "alreadyLoggedIn"
    /\ loggedIn
    /\ req[ev.who].pc = "stop"
    /\ \E j \in Requests : j # ev.who /\ req[j].pc = "done"

\* C24 as stated: a poll made while connected adds the poll interval to
\* streamAloneTime when no non-bot member is in the call and sets it to 0
\* for any other count.
C24_NoMemberAccumulates ==
    [][(ev'.kind = "poll" /\ voiceConnection # NoVoice /\ ev'.counted) =>
          streamAloneTime' = IF ev'.members = 0
                             THEN streamAloneTime + POLL_SECONDS
                             ELSE 0]_vars

\* C24 amended: a poll that finds the voice channel of the connection adds
\* POLL_SECONDS to streamAloneTime when it counts exactly one non-bot member
\* (the streaming account itself) and sets it to 0 for any other count,
\* zero included.
C24_OneMemberAccumulates ==
    [][(ev'.kind = "poll" /\ voiceConnection # NoVoice /\ ev'.counted) =>
          streamAloneTime' = IF ev'.members = 1
                             THEN streamAloneTime + POLL_SECONDS
                             ELSE 0]_vars

\* a poll below the threshold has added the interval to what an earlier poll
\* had accumulated
C24_Witness ==
    /\ ev.kind = "poll" /\ ev.counted /\ ev.members = 1 /\ ~ev.fire
    /\ ev.prevAlone = POLL_SECONDS
    /\ streamAloneTime = 2 * POLL_SECONDS

\* C25: a poll requests the stop and the leave exactly when it has raised
\* streamAloneTime to DEFAULT_STREAM_TIMEOUT * 60 seconds or more, which is
\* the poll that completes 6 * DEFAULT_STREAM_TIMEOUT consecutive alone
\* polls and no earlier one.
C25_RequestAtThreshold ==
    [][ev'.kind = "poll" =>
          /\ (monReq' # monReq) =
                (/\ streamAloneTime' > streamAloneTime
                 /\ streamAloneTime' >= DEFAULT_STREAM_TIMEOUT * 60)
          /\ (monReq' # monReq) = (streak' # streak /\ streak' = 6 * DEFAULT_STREAM_TIMEOUT)
          /\ (monReq' # monReq /\ loggedIn) =>
                /\ Cardinality(stops') = Cardinality(stops) + 2
                /\ abortController'.aborted]_vars

\* the poll that reached the threshold has requested the stop
C25_Witness ==
    /\ ev.kind = "poll" /\ ev.fire
    /\ ev.prevAlone = DEFAULT_STREAM_TIMEOUT * 60 - POLL_SECONDS
    /\ streamAloneTime = DEFAULT_STREAM_TIMEOUT * 60
    /\ streak = 6 * DEFAULT_STREAM_TIMEOUT
    /\ monReq[ev.who] = 1

\* C26: a poll made while the streamer has no voice connection changes
\* neither streamAloneTime nor anything else of the streaming state, and
\* requests no stop.
C26_PollWithoutConnectionIsNoOp ==
    [][(ev'.kind = "poll" /\ voiceConnection = NoVoice) =>
          /\ ~ev'.counted
          /\ streamAloneTime' = streamAloneTime
          /\ monReq' = monReq
          /\ UNCHANGED <<abortController, stops, pipe, currentChannelEntry,
                         streamSpectatorMonitor, voiceConnection, loggedIn>>]_vars

\* a running session was polled after the voice connection had been closed
C26_Witness ==
    /\ ev.kind = "poll" /\ ~ev.counted
    /\ voiceConnection = NoVoice
    /\ currentChannelEntry = ev.who
    /\ ev.who \in Alive
    /\ \E j \in Requests : monReq[j] > 0
    /\ streamAloneTime = ev.prevAlone

\* C27: every pipeline whose playStream has not returned holds a signal that
\* is aborted or belongs to the module's current abortController.
C27_RunningPipelinesReachable ==
    \A i \in Alive : pipe[i].signal \in {"current", "aborted"}

\* request i's session has been superseded: a session prepared later is the
\* current one
Superseded(i) ==
    currentChannelEntry # NoChannel /\ currentChannelEntry # i

\* C28: when playStream of a superseded session rejects, the catch block of
\* its startStreaming leaves the newer session alone: its signal is not
\* aborted, its monitor timer is not cancelled, and the stopStreaming call
\* made by the catch does not clear its currentChannelEntry.
C28_OldFailureSparesNewSession ==
    [][\A i \in Requests :
          /\ (RunFails(i) /\ Superseded(i)) =>
                /\ abortController'.aborted = abortController.aborted
                /\ streamSpectatorMonitor' = streamSpectatorMonitor
                /\ timers' = timers
          /\ (/\ ev'.kind = "stopReturn" /\ ev'.cont = "catch" /\ ev'.who = i
              /\ \E s \in stops : s \notin stops' /\ s.cont = "catch" /\ s.who = i
              /\ pipe[i].st = "ended"
              /\ Superseded(i)) =>
                currentChannelEntry' = currentChannelEntry]_vars

\* C29: when the last of several overlapping stopStreaming calls returns,
\* no session is recorded, no monitor timer is armed, streamAloneTime is 0
\* and the abortController is a new one that has not been aborted.
C29_OverlappingStopsSettle ==
    [][(/\ ev'.kind \in {"stopReturn", "leaveFailed"}
        /\ stops # {}
        /\ stops' = {}) =>
            /\ currentChannelEntry' = NoChannel
            /\ streamSpectatorMonitor' = NoTimer
            /\ timers' = {}
            /\ streamAloneTime' = 0
            /\ ~abortController'.aborted]_vars

\* a /stop command and the stopStreaming of a start were in their delays
\* together and both have returned
C29_Witness ==
    /\ ev.kind = "stopReturn" /\ ev.cont = "stopCmd"
    /\ stops = {}
    /\ \E i \in Requests : req[i].pc = "wait1" /\ req[i].left = WAIT
    /\ currentChannelEntry = NoChannel
    /\ ~abortController.aborted

\* C30: while the client is not logged in, a step of a start, of /stop or of
\* /leave (the calls of stopStreaming, joinVoiceChannel, startStreaming and
\* leaveVoiceChannel they make) aborts and replaces no controller, prepares
\* no pipeline and leaves the session, the monitor timer, the accumulator
\* and the voice connection as they are.
C30_LoggedOutCallsChangeNothing ==
    [][(/\ ~loggedIn /\ ~loggedIn'
        /\ \/ calls' # calls
           \/ \E i \in Requests : req'[i].pc # req[i].pc) =>
            UNCHANGED <<abortController, pipe, stops, currentChannelEntry,
                        streamSpectatorMonitor, timers, streamAloneTime,
                        voiceConnection>>]_vars

\* a start whose login failed has run to its end and reported success
C30_Witness ==
    /\ ~loggedIn
    /\ \E i \in Requests :
          /\ req[i].pc = "done" /\ req[i].result = "success"
          /\ pipe[i].st = "none"
    /\ calls = MaxCalls
    /\ abortController = NewAbortController
    /\ stops = {}

\* playStream of request i resolves in this step
RunEnds(i) ==
    pipe[i].st = "alive" /\ pipe'[i].st = "ended" /\ ev'.kind # "playFailed"

\* C31: when playStream resolves, startStreaming returns and nothing is
\* stopped: the session, the monitor timer, the accumulator and the
\* abortController stay as they are and no stopStreaming call is made; the
\* recorded session is cleared only by a stopStreaming call returning.
C31_EndOfSourceStopsNothing ==
    [][/\ \A i \in Requests :
             RunEnds(i) =>
                UNCHANGED <<currentChannelEntry, streamSpectatorMonitor, timers,
                            streamAloneTime, abortController, stops,
                            voiceConnection>>
       /\ (currentChannelEntry # NoChannel /\ currentChannelEntry' = NoChannel) =>
             ev'.kind \in {"stopReturn", "leaveFailed"}]_vars

\* the monitor has polled a session whose playStream had resolved
C31_Witness ==
    /\ ev.kind = "poll" /\ ev.counted
    /\ pipe[ev.who].st = "ended"
    /\ pipe[ev.who].signal = "current"
    /\ ~abortController.aborted
    /\ currentChannelEntry = ev.who
    /\ streamSpectatorMonitor = ev.who
    /\ stops = {}

\* C37: whenever the spectator monitor's handle is set, a current channel
\* is recorded.
C37_MonitorImpliesSession ==
    streamSpectatorMonitor # NoTimer => currentChannelEntry # NoChannel

\* the monitor of a second session polls, armed with its session recorded,
\* after the first session was stopped and its stopStreaming call returned
C37_Witness ==
    /\ ev.kind = "poll"
    /\ streamSpectatorMonitor # NoTimer
    /\ streamSpectatorMonitor = ev.who
    /\ currentChannelEntry = ev.who
    /\ \E i \in Requests : i # ev.who /\ pipe[i].st = "ended"
    /\ stops = {}

\* ---- the encoder's error event (schedulers.ts 175-179) --------------------
\* The handler registered on the ffmpeg command sees only the error's text.
\* A text is a sequence of parts; an encoder that ends after SIGTERM or
\* SIGINT exits with code 255, whoever sent the signal.

MaxMsgLen == 3
MsgParts == {"ffmpeg exited with code 255", "ffmpeg exited with code 1",
             "ffmpeg was killed with signal SIGKILL", "stderr"}
Messages == UNION {[1..n -> MsgParts] : n \in 1..MaxMsgLen}

\* err.toString().includes(part)
includes(msg, part) == \E k \in 1..Len(msg) : msg[k] = part

\* line 176: the condition under which logger.error is called
ErrorLogged(msg) == ~includes(msg, "ffmpeg exited with code 255")

\* an error event is pending: its text, and whether the encoder was ended by
\* abort() of the signal given to prepareStream
ErrInit ==
    /\ loggedIn = TRUE
    /\ abortController = NewAbortController
    /\ currentChannelEntry = 1
    /\ streamSpectatorMonitor = NoTimer
    /\ streamAloneTime = 0
    /\ voiceConnection = NoVoice
    /\ timers = {}
    /\ stops = {}
    /\ req = [i \in Requests |-> NewReq]
    /\ pipe = [i \in Requests |-> [st |-> "none", signal |-> "none", cool |-> 0]]
    /\ calls = 0
    /\ lastStarted = 0
    /\ monReq = [i \in Requests |-> 0]
    /\ streak = 0
    /\ empties = 0
    /\ \E msg \in Messages, byToken \in BOOLEAN :
          /\ byToken => includes(msg, "ffmpeg exited with code 255")
          /\ ev = [kind |-> "ffmpegError", msg |-> msg, byToken |-> byToken,
                   handled |-> FALSE, logged |-> FALSE]
    /\ streamTimeout = NoTimeout
    /\ IptvAtLoad

\* command.on("error", ...) runs, lines 175-179
OnEncoderError ==
    /\ ev.kind = "ffmpegError"
    /\ ~ev.handled
    /\ ev' = [ev EXCEPT !.handled = TRUE, !.logged = ErrorLogged(ev.msg)]
    /\ UNCHANGED <<streamTimeout, iptv>>
    /\ UNCHANGED <<loggedIn, abortController, currentChannelEntry,
                   streamSpectatorMonitor, streamAloneTime, voiceConnection,
                   timers, stops, req, pipe, calls, lastStarted, monReq,
                   streak, empties>>

ErrNext == OnEncoderError

ErrSpec == ErrInit /\ [][ErrNext]_vars

\* C11: an encoder error is kept out of the error log exactly when the
\* encoder was ended through the session's own signal; every other encoder
\* failure is logged.
C11_OnlyOwnAbortWithheld ==
    (ev.kind = "ffmpegError" /\ ev.handled) => (ev.logged <=> ~ev.byToken)

\* ---- relogUser (schedulers.ts 46-63) and the /reset command ---------------
\* handleResetCommand (src/src/modules/commands/reset.ts 12-28) awaits
\* resetStreamer and then replies that the reset succeeded.  resetStreamer
\* clears the streaming state and relogs the client with relogUser.  It is
\* applied to the states the module rests in between commands.

PriorStates == {"loggedOut", "idle", "connected", "streaming"}

\* values of streamAloneTime below the threshold
AloneValues == {POLL_SECONDS * k : k \in 0..(PollsToTimeout - 1)}

ResetInit ==
    \E prior \in PriorStates, left \in 0..POLL, alone \in AloneValues :
        LET live == prior = "streaming"
            used == prior \in {"connected", "streaming"}
        IN  /\ (~live => left = POLL /\ alone = 0)
            /\ loggedIn = (prior # "loggedOut")
            /\ abortController = NewAbortController
            /\ currentChannelEntry = IF live THEN 1 ELSE NoChannel
            /\ streamSpectatorMonitor = IF live THEN 1 ELSE NoTimer
            /\ streamAloneTime = alone
            /\ voiceConnection = IF used THEN 1 ELSE NoVoice
            /\ timers = IF live THEN {[h |-> 1, left |-> left]} ELSE {}
            /\ stops = {}
            /\ req = [i \in Requests |->
                        IF used /\ i = 1
                        THEN [NewReq EXCEPT !.pc = "done", !.vc = 1,
                                            !.result = "success"]
                        ELSE NewReq]
            /\ pipe = [i \in Requests |->
                         IF used /\ i = 1
                         THEN [st |-> IF live THEN "alive" ELSE "ended",
                               signal |-> IF live THEN "current" ELSE "aborted",
                               cool |-> 0]
                         ELSE [st |-> "none", signal |-> "none", cool |-> 0]]
            /\ calls = IF live THEN 1 ELSE IF used THEN 2 ELSE 0
            /\ lastStarted = IF used THEN 1 ELSE 0
            /\ monReq = [i \in Requests |-> 0]
            /\ streak = alone \div POLL_SECONDS
            /\ empties = 0
            /\ ev = [kind |-> "prior", prior |-> prior]
            /\ streamTimeout = NoTimeout
            /\ IptvAtLoad

\* resetStreamer up to the login call of relogUser: the streaming state is
\* cleared and logoutStreamer (56-63) logs the client out, which drops the
\* voice connection and the stream
ResetLogout ==
    /\ ev.kind = "prior"
    /\ abortController' = NewAbortController
    /\ pipe' = [i \in Requests |->
                  IF pipe[i].st = "alive"
                  THEN [st |-> "ended", signal |-> "aborted", cool |-> 0]
                  ELSE pipe[i]]
    /\ currentChannelEntry' = NoChannel
    /\ timers' = {}
    /\ streamSpectatorMonitor' = NoTimer
    /\ streamAloneTime' = 0
    /\ streak' = 0
    /\ voiceConnection' = NoVoice
    /\ loggedIn' = FALSE
    /\ ev' = [kind |-> "relog", prior |-> ev.prior]
    /\ UNCHANGED <<streamTimeout, iptv>>
    /\ UNCHANGED <<stops, req, calls, lastStarted, monReq, empties>>

\* relogUser lines 49-53: loginStreamer settles, a rejection is caught and
\* logged; resetStreamer returns and reset.ts line 19 reports success
ResetLoginDone ==
    /\ ev.kind = "relog"
    /\ \E ok \in BOOLEAN :
          /\ loggedIn' = ok
          /\ ev' = [kind |-> "resetReturn", prior |-> ev.prior, ok |-> ok]
    /\ UNCHANGED <<streamTimeout, iptv>>
    /\ UNCHANGED <<abortController, currentChannelEntry, streamSpectatorMonitor,
                   streamAloneTime, voiceConnection, timers, stops, req, pipe,
                   calls, lastStarted, monReq, streak, empties>>

ResetNext == ResetLogout \/ ResetLoginDone

ResetSpec == ResetInit /\ [][ResetNext]_vars

\* C21: when reset has returned the client is logged in, no channel is
\* recorded, no pipeline is running and no monitor timer is armed, whatever
\* the state before.
C21_ResetLeavesLoggedInIdle ==
    ev.kind = "resetReturn" =>
        /\ loggedIn
        /\ currentChannelEntry = NoChannel
        /\ Alive = {}
        /\ streamSpectatorMonitor = NoTimer
        /\ timers = {}

\* ---- generateChannelList (src/src/modules/commands/list.ts 39-156) --------
\* The stored channels are named by their position in the database, 0..n-1.
\* The page option is a number or is missing ('all' takes lines 51-72 and
\* returns every channel).

MaxChannels == 60        \* stored channels
MaxPage == 4             \* largest page asked for; the smallest is -1
itemsPerPage == 25

\* the streaming module as loaded, before any command
StreamAtLoad ==
    /\ loggedIn = FALSE
    /\ abortController = NewAbortController
    /\ currentChannelEntry = NoChannel
    /\ streamSpectatorMonitor = NoTimer
    /\ streamAloneTime = 0
    /\ voiceConnection = NoVoice
    /\ timers = {}
    /\ stops = {}
    /\ req = [i \in Requests |-> NewReq]
    /\ pipe = [i \in Requests |-> [st |-> "none", signal |-> "none", cool |-> 0]]
    /\ calls = 0
    /\ lastStarted = 0
    /\ monReq = [i \in Requests |-> 0]
    /\ streak = 0
    /\ empties = 0
    /\ streamTimeout = NoTimeout

\* the module as loaded, before any command
AtLoad == StreamAtLoad /\ IptvAtLoad

\* Math.ceil(n / d) for n >= 0, d > 0
ceil(n, d) == (n + d - 1) \div d

\* Array.prototype.slice(start, end) of the array 0..n-1, for start >= 0
slice(n, start, end) ==
    LET stop == IF end < n THEN end ELSE n
        len == IF stop > start THEN stop - start ELSE 0
    IN  [k \in 1..len |-> start + k - 1]

\* line 74: the page asked for
PageOrZeroIsFirst(given, pageOption) ==
    IF given /\ pageOption # 0 THEN pageOption ELSE 1
Page(given, pageOption) == IF given THEN pageOption ELSE 1

\* lines 74-96 and 148-156: the fields of the result the list is read from
generateChannelList(n, given, pageOption) ==
    LET page == Page(given, pageOption)
        totalPages == ceil(n, itemsPerPage)
        start == (page - 1) * itemsPerPage
        end == start + itemsPerPage
    IN  IF page < 1 \/ page > totalPages
        THEN [success |-> FALSE, page |-> page, totalPages |-> totalPages,
              channels |-> <<>>]
        ELSE [success |-> TRUE, page |-> page, totalPages |-> totalPages,
              channels |-> slice(n, start, end)]

ListInit ==
    /\ AtLoad
    /\ \E n \in 0..MaxChannels, given \in BOOLEAN, pageOption \in -1..MaxPage :
          /\ (~given => pageOption = 0)
          /\ ev = [kind |-> "list", n |-> n, given |-> given,
                   pageOption |-> pageOption]

ListCall ==
    /\ ev.kind = "list"
    /\ ev' = [kind |-> "listed", n |-> ev.n, given |-> ev.given,
              pageOption |-> ev.pageOption,
              result |-> generateChannelList(ev.n, ev.given, ev.pageOption)]
    /\ UNCHANGED <<streamTimeout, iptv>>
    /\ UNCHANGED <<loggedIn, abortController, currentChannelEntry,
                   streamSpectatorMonitor, streamAloneTime, voiceConnection,
                   timers, stops, req, pipe, calls, lastStarted, monReq,
                   streak, empties>>

ListNext == ListCall

ListSpec == ListInit /\ [][ListNext]_vars

\* C23: with n channels stored, page p is returned exactly when
\* 1 <= p <= ceil(n/25), and it holds the channels (p-1)*25 up to
\* min(p*25, n)-1 in database order; without a page option p is 1.
C23_PagesOf25 ==
    ev.kind = "listed" =>
        LET p == IF ev.given THEN ev.pageOption ELSE 1
            pages == IF ev.n % 25 = 0 THEN ev.n \div 25 ELSE ev.n \div 25 + 1
            first == (p - 1) * 25
            last == (IF p * 25 < ev.n THEN p * 25 ELSE ev.n) - 1
        IN  /\ ev.result.success = (1 <= p /\ p <= pages)
            /\ ev.result.success =>
                  /\ Len(ev.result.channels) = last - first + 1
                  /\ \A k \in 1..Len(ev.result.channels) :
                        ev.result.channels[k] = first + k - 1

\* the last, partly filled page of a list of more than one page was returned
C23_Witness ==
    /\ ev.kind = "listed"
    /\ ev.result.success
    /\ ev.result.page = ev.result.totalPages
    /\ ev.result.page > 1
    /\ Len(ev.result.channels) \in 1..24


\* ---- the discord_stream revision (src/unnamed/part_010) --------------------
\* An earlier revision of the streaming module.  startStreaming (92-171) arms
\* a timeout for the requested duration and the spectator monitor, and
\* stopStreaming (173-199) is called by the commands, by the timeout, by the
\* monitor and by startStreaming's catch block.  The streamer is logged in
\* and joinVoiceChannel (55-76) has been called, with or without success.

MaxOverrun == 1     \* polls counted beyond the idle threshold

DsInit ==
    /\ loggedIn = TRUE
    /\ abortController = NewAbortController
    /\ currentChannelEntry = NoChannel
    /\ streamSpectatorMonitor = NoTimer
    /\ streamAloneTime = 0
    /\ voiceConnection \in {NoVoice} \cup VoiceChannels
    /\ timers = {}
    /\ stops = {}
    /\ req = [i \in Requests |-> NewReq]
    /\ pipe = [i \in Requests |-> [st |-> "none", signal |-> "none", cool |-> 0]]
    /\ calls = 0
    /\ lastStarted = 0
    /\ monReq = [i \in Requests |-> 0]
    /\ streak = 0
    /\ empties = 0
    /\ ev = [kind |-> "init"]
    /\ streamTimeout = NoTimeout
    /\ IptvAtLoad

\* setTimeout(cb, duration * 60 * 1000), line 136
setTimeout(i) == [h |-> i, pending |-> TRUE]

\* startStreaming, lines 93-165, up to its await of playStream; a
\* prepareStream that throws goes to the catch block (167-170)
DsStartStreaming(i) ==
    /\ calls < MaxCalls
    /\ i = calls + 1
    /\ calls' = i
    /\ \E prepOk \in BOOLEAN :
        IF ~loggedIn
        THEN /\ ev' = [kind |-> "step"]
             /\ UNCHANGED <<abortController, pipe, stops, currentChannelEntry,
                            streamTimeout, timers, streamSpectatorMonitor,
                            lastStarted>>
        ELSE IF ~prepOk
        THEN /\ abortController' = abort(abortController)
             /\ pipe' = [Cool(pipe, abortController) EXCEPT ![i].st = "failed"]
             /\ stops' = stops \cup {StopRec("catch", i, currentChannelEntry)}
             /\ ev' = [kind |-> "dsPrepare", who |-> i, ok |-> FALSE,
                       prevAlone |-> streamAloneTime]
             /\ UNCHANGED <<currentChannelEntry, streamTimeout, timers,
                            streamSpectatorMonitor, lastStarted>>
        ELSE /\ pipe' = [pipe EXCEPT ![i] =
                           [st |-> "alive", signal |-> "current",
                            cool |-> IF abortController.aborted THEN GRACE ELSE 0]]
             /\ currentChannelEntry' = i
             \* lines 122-126 and 136
             /\ streamTimeout' = setTimeout(i)
             \* lines 129-133 and 143
             /\ timers' = setInterval(IF streamSpectatorMonitor # NoTimer
                                      THEN clearInterval(timers, streamSpectatorMonitor)
                                      ELSE timers, i)
             /\ streamSpectatorMonitor' = i
             /\ lastStarted' = i
             /\ ev' = [kind |-> "dsPrepare", who |-> i, ok |-> TRUE,
                       prevAlone |-> streamAloneTime]
             /\ UNCHANGED <<abortController, stops>>
    /\ UNCHANGED <<loggedIn, streamAloneTime, voiceConnection, req, monReq,
                   streak, empties, iptv>>

\* playStream settles (163-170): a rejection is logged and stopStreaming is
\* called; after a normal return nothing else runs
DsPlayReturn(i) ==
    /\ pipe[i].st = "alive"
    /\ \E how \in {"resolve", "reject"} :
        IF how = "resolve" \/ ~loggedIn
        THEN /\ pipe' = [pipe EXCEPT ![i].st = "ended"]
             /\ ev' = [kind |-> "step"]
             /\ UNCHANGED <<abortController, stops>>
        ELSE /\ abortController' = abort(abortController)
             /\ pipe' = [Cool(pipe, abortController) EXCEPT ![i].st = "ended"]
             /\ stops' = stops \cup {StopRec("catch", i, currentChannelEntry)}
             /\ ev' = [kind |-> "playFailed", who |-> i]
    /\ UNCHANGED <<loggedIn, currentChannelEntry, streamSpectatorMonitor,
                   streamAloneTime, voiceConnection, timers, req, calls,
                   lastStarted, monReq, streak, empties, streamTimeout, iptv>>

\* a command calls stopStreaming: lines 174-181, up to the 1000 ms delay
DsStopStreaming ==
    /\ calls < MaxCalls
    /\ calls' = calls + 1
    /\ abortController' = IF loggedIn THEN abort(abortController)
                          ELSE abortController
    /\ pipe' = IF loggedIn THEN Cool(pipe, abortController) ELSE pipe
    /\ stops' = IF loggedIn
                THEN stops \cup {StopRec("stopCmd", calls + 1, currentChannelEntry)}
                ELSE stops
    /\ ev' = [kind |-> "stopCommand", who |-> calls + 1,
              active |-> (currentChannelEntry # NoChannel)]
    /\ UNCHANGED <<loggedIn, currentChannelEntry, streamSpectatorMonitor,
                   streamAloneTime, voiceConnection, timers, req, lastStarted,
                   monReq, streak, empties, streamTimeout, iptv>>

\* the timeout set at line 136 expires; the duration is the caller's
\* argument, so it may expire at any moment.  Line 137 calls stopStreaming.
DsTimeout ==
    /\ streamTimeout.pending
    /\ streamTimeout' = [streamTimeout EXCEPT !.pending = FALSE]
    /\ abortController' = IF loggedIn THEN abort(abortController)
                          ELSE abortController
    /\ pipe' = IF loggedIn THEN Cool(pipe, abortController) ELSE pipe
    /\ stops' = IF loggedIn
                THEN stops \cup {StopRec("timeout", streamTimeout.h,
                                         currentChannelEntry)}
                ELSE stops
    /\ ev' = [kind |-> "dsTimeout", who |-> streamTimeout.h]
    /\ UNCHANGED <<loggedIn, currentChannelEntry, streamSpectatorMonitor,
                   streamAloneTime, voiceConnection, timers, req, calls,
                   lastStarted, monReq, streak, empties, iptv>>

\* stopStreaming lines 184-195 after the delay: the timeout handle
DsStopTimeout(handle, cur) == IF cur = NoChannel THEN handle ELSE NoTimeout

\* stopStreaming after its delay (lines 182-195), together with the code of
\* the caller that awaited it: the timeout callback goes on to
\* leaveVoiceChannel (138), whose stopStreaming call (84) is followed by
\* streamer.leaveVoice() (85)
DsStopDone(s) ==
    /\ s \in stops
    /\ s.left = 0
    /\ pipe' = Detach(pipe, abortController)
    /\ currentChannelEntry' = NoChannel
    /\ streamTimeout' = DsStopTimeout(streamTimeout, currentChannelEntry)
    /\ IF s.cont = "timeout" /\ loggedIn
       THEN /\ abortController' = abort(NewAbortController)
            /\ stops' = (stops \ {s}) \cup {StopRec("leave", s.who, NoChannel)}
       ELSE /\ abortController' = NewAbortController
            /\ stops' = stops \ {s}
    /\ IF s.cont = "leave"
       THEN \E threw \in BOOLEAN :
               voiceConnection' \in
                   IF threw THEN {voiceConnection, NoVoice} ELSE {NoVoice}
       ELSE UNCHANGED voiceConnection
    /\ ev' = [kind |-> "dsStopReturn", cont |-> s.cont, who |-> s.who,
              cleared |-> currentChannelEntry]
    /\ UNCHANGED <<loggedIn, streamSpectatorMonitor, streamAloneTime, timers,
                   req, calls, lastStarted, monReq, streak, empties, iptv>>

\* the monitor's callback, lines 143-161
DsPoll(t) ==
    /\ t \in timers
    /\ t.left = 0
    /\ \E cached \in BOOLEAN, members \in 0..MaxMembers :
        LET counted == voiceConnection # NoVoice /\ cached
            alone1 == IF ~counted THEN streamAloneTime
                      ELSE IF members = 1 THEN streamAloneTime + POLL_SECONDS
                      ELSE 0
            fire == counted /\ alone1 >= DEFAULT_STREAM_TIMEOUT * 60 /\ loggedIn
        IN  /\ alone1 <= DEFAULT_STREAM_TIMEOUT * 60 + MaxOverrun * POLL_SECONDS
            /\ timers' = (timers \ {t}) \cup {[t EXCEPT !.left = POLL]}
            /\ streamAloneTime' = alone1
            /\ abortController' = IF fire THEN abort(abortController)
                                  ELSE abortController
            /\ pipe' = IF fire THEN Cool(pipe, abortController) ELSE pipe
            /\ stops' = IF fire
                        THEN stops \cup {StopRec("mon", t.h, currentChannelEntry)}
                        ELSE stops
            /\ ev' = [kind |-> "dsPoll", who |-> t.h, counted |-> counted,
                      members |-> members, fire |-> fire,
                      session |-> currentChannelEntry]
    /\ UNCHANGED <<loggedIn, currentChannelEntry, streamSpectatorMonitor,
                   voiceConnection, req, calls, lastStarted, monReq, streak,
                   empties, streamTimeout, iptv>>

DsNext ==
    \/ \E i \in Requests : DsStartStreaming(i)
    \/ \E i \in Requests : DsPlayReturn(i)
    \/ DsStopStreaming
    \/ DsTimeout
    \/ \E s \in stops : DsStopDone(s)
    \/ \E t \in timers : DsPoll(t)
    \/ Tick

DsSpec == DsInit /\ [][DsNext]_vars

\* C32: in the discord_stream revision, when a stopStreaming call has
\* completed for a recorded session, the spectator monitor's timer is
\* cancelled and streamAloneTime is 0.
C32_StopCancelsMonitor ==
    (ev.kind = "dsStopReturn" /\ ev.cleared # NoChannel) =>
        /\ streamSpectatorMonitor = NoTimer
        /\ timers = {}
        /\ streamAloneTime = 0


\* ---- fetchWithRetry (src/src/modules/iptv/downloaders.ts 14-59) ------------

maxRetries == 3
MaxResponses == 4   \* responses the server has ready, one per attempt
MaxPlaylist == 1    \* channels a playlist can describe

PlaylistChannels == 1..MaxPlaylist

\* what one axios.get call can do (lines 23-26): resolve with data, resolve
\* with empty data, or reject with an error; an AxiosError carries a code
\* and, when the server answered, the HTTP status (0 when it did not)
Errors ==
    {[kind |-> "error", axios |-> TRUE, code |-> "ECONNABORTED", status |-> 0],
     [kind |-> "error", axios |-> TRUE, code |-> "ERR_BAD_RESPONSE", status |-> 500],
     [kind |-> "error", axios |-> TRUE, code |-> "ERR_BAD_RESPONSE", status |-> 503],
     [kind |-> "error", axios |-> TRUE, code |-> "ERR_BAD_REQUEST", status |-> 404],
     [kind |-> "error", axios |-> TRUE, code |-> "ENOTFOUND", status |-> 0],
     [kind |-> "error", axios |-> FALSE, code |-> "none", status |-> 0]}

Responses(files) ==
    {[kind |-> "data", data |-> f] : f \in files} \cup {[kind |-> "empty"]}
        \cup Errors

\* getCachedFile(cacheFileName): the cached copy, or null
getCachedFile(cache) == cache

\* line 42: the errors after which another attempt is made
RetryableAlways(r) == TRUE
Retryable(r) == r.axios /\ (r.code = "ECONNABORTED" \/ r.status >= 500)

\* the loop of lines 20-57 from the given attempt on, and line 58 after it:
\* the value returned, the attempts made, the seconds waited between
\* attempts and the cache afterwards.  cacheOk: cacheFile (line 32) succeeds
RECURSIVE attemptFrom(_, _, _, _, _, _)
attemptFrom(responses, cache, cacheOk, attempt, retryDelay, waited) ==
    IF attempt > maxRetries
    THEN [value |-> NoFile, attempts |-> attempt - 1, waited |-> waited,
          cache |-> cache]
    ELSE LET r == responses[attempt]
         IN  IF r.kind = "data"
             THEN [value |-> r.data, attempts |-> attempt, waited |-> waited,
                   cache |-> IF cacheOk THEN r.data ELSE cache]
             ELSE IF r.kind = "empty"
             THEN attemptFrom(responses, cache, cacheOk, attempt + 1,
                              retryDelay, waited)
             ELSE IF Retryable(r) /\ attempt < maxRetries
             THEN attemptFrom(responses, cache, cacheOk, attempt + 1,
                              retryDelay * 2, waited + retryDelay)
             ELSE [value |-> getCachedFile(cache), attempts |-> attempt,
                   waited |-> waited, cache |-> cache]

fetchWithRetry(responses, cache, cacheOk) ==
    attemptFrom(responses, cache, cacheOk, 1, 5, 0)

\* the file the server holds and the copy cached earlier
Served == File({1})
Cached == File({})

FetchInit ==
    /\ StreamAtLoad
    /\ refreshTimers = 0
    /\ channelsDb = {}
    /\ DEBUG = FALSE
    /\ playlistCache \in {NoFile, Cached}
    /\ \E responses \in [1..MaxResponses -> Responses({Served})],
          cacheOk \in BOOLEAN :
          ev = [kind |-> "fetch", responses |-> responses, cacheOk |-> cacheOk,
                cache |-> playlistCache]

FetchCall ==
    /\ ev.kind = "fetch"
    /\ LET r == fetchWithRetry(ev.responses, playlistCache, ev.cacheOk)
       IN  /\ playlistCache' = r.cache
           /\ ev' = [kind |-> "fetched", responses |-> ev.responses,
                     cacheOk |-> ev.cacheOk, cache |-> playlistCache,
                     result |-> r]
    /\ UNCHANGED <<loggedIn, abortController, currentChannelEntry,
                   streamSpectatorMonitor, streamAloneTime, voiceConnection,
                   timers, stops, req, pipe, calls, lastStarted, monReq,
                   streak, empties, streamTimeout, refreshTimers, channelsDb,
                   DEBUG>>

FetchNext == FetchCall

FetchSpec == FetchInit /\ [][FetchNext]_vars

\* the attempts of the call that obtained data
WithContent == {k \in 1..ev.result.attempts : ev.responses[k].kind = "data"}

\* C35: when no attempt yields content, fetchWithRetry returns the cached
\* copy if there is one; it returns null only when no attempt yields content
\* and nothing is cached.
C35_CachedCopyWhenNoContent ==
    ev.kind = "fetched" =>
        /\ (WithContent = {} /\ ev.cache.found) => ev.result.value = ev.cache
        /\ ev.result.value = NoFile => (WithContent = {} /\ ~ev.cache.found)

\* C36: fetchWithRetry returns after at most 3 attempts, and an error that
\* is neither a timeout nor an HTTP status of 500 or above is the last
\* attempt of its call.
C36_AtMostThreeAttempts ==
    ev.kind = "fetched" =>
        /\ ev.result.attempts <= 3
        /\ \A k \in 1..ev.result.attempts :
              LET r == ev.responses[k]
              IN  (r.kind = "error" /\ r.code # "ECONNABORTED" /\ r.status < 500)
                      => ev.result.attempts = k

\* a timeout, then a 404 answer: two attempts, although the third would
\* have obtained the file
C36_Witness ==
    /\ ev.kind = "fetched"
    /\ ev.responses[1].kind = "error" /\ ev.responses[1].code = "ECONNABORTED"
    /\ ev.responses[2].kind = "error" /\ ev.responses[2].status = 404
    /\ ev.responses[3].kind = "data"
    /\ ev.result.attempts = 2
    /\ ev.result.waited = 5


\* ---- the IPTV refresh (src/src/modules/iptv/index.ts 12-54, 277-288) -------
\* downloadCacheAndFillDb is called once at start-up (src/src/index.ts 12),
\* by every refresh timer and by the command /refresh all; the bot accepts
\* commands once the start-up call has resolved.

MaxRefreshTimers == 3   \* refresh timers alive at once

Files == {File(chs) : chs \in SUBSET PlaylistChannels}

\* clearChannels (src/src/modules/database/index.ts 29-34)
clearChannels == {}

\* fillDbChannels (index.ts 25-54): the database and the cache afterwards,
\* and whether playlist content was obtained
fillDbChannels(force, cache, responses, cacheOk) ==
    LET cleared == clearChannels
        cachedCopy == getCachedFile(cache)
        downloads == ~cachedCopy.found \/ force
        fetched == fetchWithRetry(responses, cache, cacheOk)
        playlistContent == IF downloads THEN fetched.value ELSE cachedCopy
    IN  [db |-> IF playlistContent.found THEN playlistContent.channels
                ELSE cleared,
         cache |-> IF downloads THEN fetched.cache ELSE cache,
         got |-> playlistContent.found]

\* downloadCacheAndFillDb(force), lines 12-23.  completes: fillDbProgrammes
\* and clearCache return without throwing, so that line 22 is reached
DownloadCacheAndFillDb(force, origin) ==
    \E served \in Files, cacheOk \in BOOLEAN, completes \in BOOLEAN :
    \E responses \in [1..maxRetries -> Responses({served})] :
        LET r == fillDbChannels(force, playlistCache, responses, cacheOk)
        IN  /\ channelsDb' = r.db
            /\ playlistCache' = IF completes /\ ~DEBUG THEN NoFile ELSE r.cache
            /\ refreshTimers' = IF completes THEN refreshTimers + 1
                                ELSE refreshTimers
            /\ ev' = [kind |-> "filled", origin |-> origin, got |-> r.got,
                      before |-> channelsDb, completes |-> completes]

IptvInit ==
    /\ StreamAtLoad
    /\ refreshTimers = 0
    /\ channelsDb \in SUBSET PlaylistChannels
    /\ playlistCache \in {NoFile} \cup Files
    /\ DEBUG \in BOOLEAN
    /\ ev = [kind |-> "boot"]

\* src/src/index.ts line 12
InitialLoad ==
    /\ ev.kind = "boot"
    /\ DownloadCacheAndFillDb(FALSE, "boot")
    /\ UNCHANGED <<loggedIn, abortController, currentChannelEntry,
                   streamSpectatorMonitor, streamAloneTime, voiceConnection,
                   timers, stops, req, pipe, calls, lastStarted, monReq,
                   streak, empties, streamTimeout, DEBUG>>

\* the callback of a refresh timer, index.ts 279-286
RefreshTimer ==
    /\ refreshTimers > 0
    /\ refreshTimers < MaxRefreshTimers
    /\ DownloadCacheAndFillDb(TRUE, "timer")
    /\ UNCHANGED <<loggedIn, abortController, currentChannelEntry,
                   streamSpectatorMonitor, streamAloneTime, voiceConnection,
                   timers, stops, req, pipe, calls, lastStarted, monReq,
                   streak, empties, streamTimeout, DEBUG>>

\* executeRefresh (src/src/modules/commands/refresh.ts 12-33)
ExecuteRefresh(type) ==
    /\ refreshTimers > 0
    /\ CASE type = "all" ->
              /\ refreshTimers < MaxRefreshTimers
              /\ DownloadCacheAndFillDb(TRUE, "command")
         [] type = "channels" ->
              \E served \in Files, cacheOk \in BOOLEAN :
              \E responses \in [1..maxRetries -> Responses({served})] :
                  LET r == fillDbChannels(TRUE, playlistCache, responses, cacheOk)
                  IN  /\ channelsDb' = r.db
                      /\ playlistCache' = r.cache
                      /\ ev' = [kind |-> "filled", origin |-> "channels",
                                got |-> r.got, before |-> channelsDb,
                                completes |-> TRUE]
                      /\ UNCHANGED refreshTimers
         [] OTHER ->
              /\ ev' = [kind |-> "refreshed", type |-> type,
                        success |-> (type = "programme")]
              /\ UNCHANGED <<refreshTimers, channelsDb, playlistCache>>
    /\ UNCHANGED <<loggedIn, abortController, currentChannelEntry,
                   streamSpectatorMonitor, streamAloneTime, voiceConnection,
                   timers, stops, req, pipe, calls, lastStarted, monReq,
                   streak, empties, streamTimeout, DEBUG>>

IptvNext ==
    \/ InitialLoad
    \/ RefreshTimer
    \/ \E type \in {"all", "channels", "programme", "other"} : ExecuteRefresh(type)

IptvSpec == IptvInit /\ [][IptvNext]_vars

\* C33: at any time at most one periodic IPTV refresh timer is scheduled.
C33_OneRefreshTimer == refreshTimers <= 1

\* C34: a fillDbChannels call that obtains no playlist content leaves the
\* channel database as it was before the call.
C34_FailedRefreshKeepsChannels ==
    (ev.kind = "filled" /\ ~ev.got) => channelsDb = ev.before

====
